---- MODULE Spec2Model ----
(***************************************************************************)
(* aiocouchdb.multipart: the streaming MIME multipart reader and writer.   *)
(*                                                                         *)
(* A byte string is a sequence of symbols.  A symbol is one byte ("-",     *)
(* "x", "CR", "LF", "SP"), a boundary token ("b", "c": the text of a       *)
(* boundary parameter), or the whole text of one header field              *)
(* ("Content-Length: 1"), which the code only ever handles as one unit.    *)
(* The underlying stream is `content` with the read position `pos`; the    *)
(* reader objects live in `heap` (object 1 is the reader built over the    *)
(* whole stream, every part it hands out is appended).  Every public       *)
(* method call is one action; `call` records what the last call did.       *)
(***************************************************************************)
EXTENDS Integers, Sequences, FiniteSets, TLC

VARIABLES
    parts,      \* MultipartWriter.parts: the BodyPartWriter objects appended
    phase,      \* "write": the writer is being filled; "read": the body is on the wire
    content,    \* the bytes of the underlying stream (StreamReader)
    wire,       \* "writer": serialize() untruncated, "cut": truncated, "raw": a foreign body
    pos,        \* number of bytes of content consumed so far
    heap,       \* the reader objects: MultipartReader and BodyPartReader instances
    call,       \* the last method call: operation, target, result, exception
    resp,       \* the response that owns the stream: how often resp.release() ran
    source,     \* Feed: the chunks content.read() has returned to _loop, in order
    queue,      \* Feed._queue: the items put and not yet taken
    eof,        \* Feed._eof
    task,       \* Feed: the task running _loop: "running", "done" or "failed"
    consumer,   \* Feed: the caller of next(): "idle", or "waiting" in _queue.get()
    returned,   \* Feed: the values next() has returned, in order
    wboundary,  \* the boundary argument of MultipartWriter(boundary=...)
    writer,     \* what MultipartWriter.__init__ did: "none" (not called), "ok", "ValueError"
    reader      \* what MultipartReader.__init__ over writer.headers did, likewise

\* the multipart reader and writer
mpvars == <<parts, phase, content, wire, pos, heap, call, resp>>

\* the feed
feedvars == <<source, queue, eof, task, consumer, returned>>

\* the construction of a writer and of the reader of its body
ctorvars == <<wboundary, writer, reader>>

vars == <<mpvars, feedvars, ctorvars>>

(* ------------------------------ bounds -------------------------------- *)

\* most parts appended to the MultipartWriter
MaxParts == 2
\* largest size argument passed to read_chunk, and most bytes one read() of
\* the transport hands over when it returns short
MaxChunk == 2
\* most parts of a body whose truncations are explored
MaxCutParts == 1
\* most calls of resp.release() followed
MaxReleases == 2
\* most chunks the source of a feed delivers
MaxReads == 3
\* most calls of Feed.next() followed
MaxNexts == 4
\* longest boundary a writer is constructed with
MaxBoundary == 72

(* ---------------------------- byte strings ---------------------------- *)

CRLF == <<"CR", "LF">>
DASHES == <<"-", "-">>

Min2(a, b) == IF a < b THEN a ELSE b

Take(s, n) == SubSeq(s, 1, Min2(n, Len(s)))

Drop(s, n) == SubSeq(s, n + 1, Len(s))

\* bytes.startswith
StartsWith(s, p) == Len(p) <= Len(s) /\ SubSeq(s, 1, Len(p)) = p

\* bytes.rstrip(chars): drop every trailing byte that is in chars
RECURSIVE RStrip(_, _)
RStrip(s, chars) ==
    IF s # <<>> /\ s[Len(s)] \in chars THEN RStrip(SubSeq(s, 1, Len(s) - 1), chars)
    ELSE s

\* str.lstrip over the same character class
RECURSIVE LStrip(_, _)
LStrip(s, chars) ==
    IF s # <<>> /\ s[1] \in chars THEN LStrip(Drop(s, 1), chars)
    ELSE s

\* the bytes rstrip() and str.strip() remove when called without argument
WHITESPACE == {"SP", "CR", "LF"}

(* ------------------------------ headers ------------------------------- *)

\* Header fields, each the text of one "Name: value" line.
CL0 == "Content-Length: 0"
CL1 == "Content-Length: 1"
CL2 == "Content-Length: 2"
CT_OCTET == "Content-Type: application/octet-stream"
CT_TEXT == "Content-Type: text/plain; charset=utf-8"
CT_JSON == "Content-Type: application/json"
CT_MULTI_B == "Content-Type: multipart/mixed; boundary=b"
CT_MULTI_C == "Content-Type: multipart/mixed; boundary=c"
CT_MULTI_NOB == "Content-Type: multipart/mixed"

LengthFields == {CL0, CL1, CL2}
TypeFields == {CT_OCTET, CT_TEXT, CT_JSON, CT_MULTI_B, CT_MULTI_C, CT_MULTI_NOB}
HeaderFields == LengthFields \cup TypeFields

\* the value None
None == -1

\* headers.get(name): the first field of the given names, "" when absent
RECURSIVE HeaderGet(_, _)
HeaderGet(headers, names) ==
    IF headers = <<>> THEN ""
    ELSE IF headers[1] \in names THEN headers[1]
    ELSE HeaderGet(Drop(headers, 1), names)

\* int(headers.get(CONTENT_LENGTH)), None when the header is absent
ContentLength(headers) ==
    LET f == HeaderGet(headers, LengthFields) IN
    CASE f = CL0 -> 0
      [] f = CL1 -> 1
      [] f = CL2 -> 2
      [] OTHER -> None

\* parse_mimetype(ctype): the main type
MimeType(field) ==
    CASE field \in {CT_OCTET, CT_JSON} -> "application"
      [] field = CT_TEXT -> "text"
      [] field \in {CT_MULTI_B, CT_MULTI_C, CT_MULTI_NOB} -> "multipart"
      [] OTHER -> ""

\* parse_mimetype(ctype): the subtype
MimeSubtype(field) ==
    CASE field = CT_OCTET -> "octet-stream"
      [] field = CT_JSON -> "json"
      [] field = CT_TEXT -> "plain"
      [] field \in {CT_MULTI_B, CT_MULTI_C, CT_MULTI_NOB} -> "mixed"
      [] OTHER -> ""

\* parse_mimetype(ctype): params.get('boundary'), "" when the parameter is absent
BoundaryParam(field) ==
    CASE field = CT_MULTI_B -> "b"
      [] field = CT_MULTI_C -> "c"
      [] OTHER -> ""

(* ------------------------ the underlying stream ------------------------ *)

\* StreamReader.readline at position p: up to and including the next LF, or
\* whatever is left when the stream ends first (b'' at end of stream)
StreamReadline(p) ==
    LET ends == {i \in (p + 1)..Len(content) : content[i] = "LF"}
        stop == IF ends = {} THEN Len(content)
                ELSE CHOOSE i \in ends : \A j \in ends : i <= j
    IN SubSeq(content, p + 1, stop)

\* StreamReader.read(n) at position p when the transport has avail bytes
\* buffered: at most n bytes, fewer when less is buffered or left
StreamRead(p, n, avail) ==
    SubSeq(content, p + 1, p + Min2(Min2(n, avail), Len(content) - p))

(* --------------------------- BodyPartReader ---------------------------- *)

\* BodyPartReader.chunk_size
chunk_size == 8192

\* BodyPartReader.__init__(boundary, headers, content), handed out by owner
NewBodyPartReader(owner, boundary, headers) ==
    [kind |-> "body", owner |-> owner, boundary |-> boundary, headers |-> headers,
     at_eof |-> FALSE, length |-> ContentLength(headers), read_bytes |-> 0,
     unread |-> <<>>, last_part |-> None]

\* A method runs on a machine m: the heap, the stream position, the exception
\* raised ("none" while running normally, "hang" when the call never returns),
\* the bytes (data) or the part (item) returned, and the log of the boundary
\* lines the MultipartReaders examined during the call.
Machine(h, p) ==
    [heap |-> h, pos |-> p, exc |-> "none", data |-> <<>>, item |-> None, log |-> <<>>]

\* Sequencing: F applied to the value of v, v evaluated once.
Then(v, F(_)) == CHOOSE res \in {F(x) : x \in {v}} : TRUE

\* the test of readline without its exact comparison
IsBoundaryLike(line, boundary) == StartsWith(line, boundary)

\* the test of readline: the line, without trailing CR and LF bytes, is the
\* boundary or the last boundary
IsBoundaryLine(line, boundary) ==
    /\ StartsWith(line, boundary)
    /\ LET sline == RStrip(line, {"CR", "LF"})
       IN sline = boundary \/ sline = boundary \o DASHES

\* BodyPartReader.readline
BPReadline(m, p) ==
    IF m.heap[p].at_eof THEN [m EXCEPT !.data = <<>>]
    ELSE Then(StreamReadline(m.pos), LAMBDA line :
         IF IsBoundaryLine(line, m.heap[p].boundary)
         THEN [m EXCEPT !.pos = @ + Len(line),
                        !.heap[p].at_eof = TRUE,
                        !.heap[p].unread = Append(@, line),
                        !.data = <<>>]
         ELSE [m EXCEPT !.pos = @ + Len(line), !.data = line])

\* the counter update of read_chunk: the bytes asked for, not the bytes got
AdvanceReadBytes(read_bytes, size, chunk) == read_bytes + size

\* read_chunk that ends the part after any chunk
BPReadChunkEndsPart(m, p, size, avail) ==
    LET o == m.heap[p] IN
    IF o.at_eof THEN [m EXCEPT !.data = <<>>]
    ELSE IF o.length = None THEN [m EXCEPT !.exc = "AssertionError", !.data = <<>>]
    ELSE LET n == Min2(size, o.length - o.read_bytes)
             chunk == StreamRead(m.pos, n, avail)
         IN [m EXCEPT !.pos = @ + Len(chunk),
                      !.heap[p].read_bytes = AdvanceReadBytes(o.read_bytes, n, chunk),
                      !.heap[p].at_eof = TRUE,
                      !.data = chunk]

\* BodyPartReader.read_chunk(size)
BPReadChunk(m, p, size, avail) ==
    LET o == m.heap[p] IN
    IF o.at_eof THEN [m EXCEPT !.data = <<>>]
    ELSE IF o.length = None THEN [m EXCEPT !.exc = "AssertionError", !.data = <<>>]
    ELSE LET n == Min2(size, o.length - o.read_bytes)
             chunk == StreamRead(m.pos, n, avail)
             rb == AdvanceReadBytes(o.read_bytes, n, chunk)
         IN [m EXCEPT !.pos = @ + Len(chunk),
                      !.heap[p].read_bytes = rb,
                      !.heap[p].at_eof = (rb = o.length),
                      !.data = chunk]

\* while not self._at_eof: data.extend(readline()).  A readline that reads
\* nothing and does not reach the boundary repeats for ever: the call hangs.
RECURSIVE BPReadLines(_, _, _)
BPReadLines(m, p, data) ==
    IF m.heap[p].at_eof THEN [m EXCEPT !.data = data]
    ELSE Then(BPReadline(m, p), LAMBDA m1 :
         IF m1.pos = m.pos /\ ~m1.heap[p].at_eof
         THEN [m1 EXCEPT !.exc = "hang", !.data = <<>>]
         ELSE BPReadLines(m1, p, data \o m1.data))

\* while not self._at_eof: data.extend(read_chunk(self.chunk_size))
RECURSIVE BPReadChunks(_, _, _, _)
BPReadChunks(m, p, data, avail) ==
    IF m.heap[p].at_eof THEN [m EXCEPT !.data = data]
    ELSE Then(BPReadChunk(m, p, chunk_size, avail), LAMBDA m1 :
         BPReadChunks(m1, p, data \o m1.data, avail))

\* assert b'\r\n' == (yield from self._content.readline())
AssertCRLF(m) ==
    Then(StreamReadline(m.pos), LAMBDA line :
         IF line = CRLF THEN [m EXCEPT !.pos = @ + Len(line)]
         ELSE [m EXCEPT !.pos = @ + Len(line), !.exc = "AssertionError", !.data = <<>>])

\* BodyPartReader.read()
BPRead(m, p, avail) ==
    IF m.heap[p].at_eof THEN [m EXCEPT !.data = <<>>]
    ELSE IF m.heap[p].length = None THEN BPReadLines(m, p, <<>>)
    ELSE Then(BPReadChunks(m, p, <<>>, avail), LAMBDA m1 : AssertCRLF(m1))

\* BodyPartReader.release()
BPRelease(m, p, avail) ==
    IF m.heap[p].at_eof THEN [m EXCEPT !.data = <<>>]
    ELSE IF m.heap[p].length = None
    THEN Then(BPReadLines(m, p, <<>>), LAMBDA m1 : [m1 EXCEPT !.data = <<>>])
    ELSE Then(BPReadChunks(m, p, <<>>, avail), LAMBDA m1 :
         Then(AssertCRLF(m1), LAMBDA m2 : [m2 EXCEPT !.data = <<>>]))

(* --------------------------- MultipartReader --------------------------- *)

\* MultipartReader.__init__(headers, content) once _get_boundary has returned
\* the boundary parameter: self._boundary = ('--' + boundary).encode()
NewMultipartReader(owner, param, headers) ==
    [kind |-> "multipart", owner |-> owner, boundary |-> DASHES \o <<param>>,
     headers |-> headers, at_eof |-> FALSE, length |-> None, read_bytes |-> 0,
     unread |-> <<>>, last_part |-> None]

\* MultipartReader._get_boundary: "" stands for the ValueError of a missing
\* boundary parameter
GetBoundary(headers) == BoundaryParam(HeaderGet(headers, TypeFields))

\* MultipartReader._readline: the last pushed-back line, else a stream line
MRReadline(m, r) ==
    LET u == m.heap[r].unread IN
    IF u # <<>>
    THEN [m |-> [m EXCEPT !.heap[r].unread = SubSeq(u, 1, Len(u) - 1)],
          line |-> u[Len(u)], src |-> "unread"]
    ELSE Then(StreamReadline(m.pos), LAMBDA line :
         [m |-> [m EXCEPT !.pos = @ + Len(line)], line |-> line, src |-> "stream"])

\* _read_boundary that takes any unexpected line for the end of the body
MRReadBoundaryLenient(m, r, prev) ==
    Then(MRReadline(m, r), LAMBDA got :
    LET chunk == RStrip(got.line, WHITESPACE)
        entry == [reader |-> r, line |-> got.line, src |-> got.src, prev |-> prev]
    IN IF chunk = m.heap[r].boundary THEN [got.m EXCEPT !.log = Append(@, entry)]
       ELSE [got.m EXCEPT !.log = Append(@, entry), !.heap[r].at_eof = TRUE])

\* MultipartReader._read_boundary; prev is the part that was the last part when
\* next() was entered, kept in the log of examined lines
MRReadBoundary(m, r, prev) ==
    Then(MRReadline(m, r), LAMBDA got :
    LET chunk == RStrip(got.line, WHITESPACE)
        boundary == m.heap[r].boundary
        entry == [reader |-> r, line |-> got.line, src |-> got.src, prev |-> prev]
    IN IF chunk = boundary THEN [got.m EXCEPT !.log = Append(@, entry)]
       ELSE IF chunk = boundary \o DASHES
       THEN [got.m EXCEPT !.log = Append(@, entry), !.heap[r].at_eof = TRUE]
       ELSE [got.m EXCEPT !.log = Append(@, entry), !.exc = "ValueError"])

\* the loop of _read_headers: stream lines, decoded and stripped, up to and
\* including the first empty one (the end of the stream reads as empty)
RECURSIVE ReadHeaderLines(_, _)
ReadHeaderLines(p, lines) ==
    Then(StreamReadline(p), LAMBDA raw :
    Then(LStrip(RStrip(raw, WHITESPACE), WHITESPACE), LAMBDA chunk :
         IF chunk = <<>> THEN [pos |-> p + Len(raw), lines |-> lines]
         ELSE ReadHeaderLines(p + Len(raw), Append(lines, chunk))))

\* HttpParser.parse_headers accepts a line that is one header field; any other
\* line has no "name: value" form
IsHeaderLine(chunk) == Len(chunk) = 1 /\ chunk[1] \in HeaderFields

\* MultipartReader._read_headers
MRReadHeaders(m) ==
    Then(ReadHeaderLines(m.pos, <<>>), LAMBDA got :
         IF \A i \in 1..Len(got.lines) : IsHeaderLine(got.lines[i])
         THEN [m |-> [m EXCEPT !.pos = got.pos],
               headers |-> [i \in 1..Len(got.lines) |-> got.lines[i][1]]]
         ELSE [m |-> [m EXCEPT !.pos = got.pos, !.exc = "InvalidHeader"],
               headers |-> <<>>])

\* a dispatch that takes no part for multipart
NeverMultipartType(headers) == FALSE

\* the dispatch of _get_part_reader on the part's own Content-Type
IsMultipartType(headers) == MimeType(HeaderGet(headers, TypeFields)) = "multipart"

\* MultipartReader._get_part_reader: the new reader is appended to the heap
MRGetPartReader(m, r, headers) ==
    IF IsMultipartType(headers)
    THEN IF GetBoundary(headers) = "" THEN [m EXCEPT !.exc = "ValueError"]
         ELSE [m EXCEPT !.heap = Append(@, NewMultipartReader(r, GetBoundary(headers), headers))]
    ELSE [m EXCEPT !.heap = Append(@, NewBodyPartReader(r, m.heap[r].boundary, headers))]

\* MultipartReader.fetch_next_part, and the assignment of next() to _last_part
MRFetchNextPart(m, r) ==
    Then(MRReadHeaders(m), LAMBDA got :
         IF got.m.exc # "none" THEN got.m
         ELSE Then(MRGetPartReader(got.m, r, got.headers), LAMBDA m1 :
              IF m1.exc # "none" THEN m1
              ELSE [m1 EXCEPT !.heap[r].last_part = Len(m1.heap), !.item = Len(m1.heap)]))

RECURSIVE MRNext(_, _, _), MRRelease(_, _, _)

\* item.release() and self._last_part.release(): a part is either reader
PartRelease(m, p, avail) ==
    IF m.heap[p].kind = "body" THEN BPRelease(m, p, avail) ELSE MRRelease(m, p, avail)

\* _maybe_release_last_part that forgets the part without releasing it
MRForgetLastPart(m, r, avail) ==
    LET lp == m.heap[r].last_part IN
    IF lp = None THEN m
    ELSE [m EXCEPT !.heap[r].unread = @ \o m.heap[lp].unread,
                   !.heap[r].last_part = None]

\* _maybe_release_last_part that keeps the part as the last part
MRKeepLastPart(m, r, avail) ==
    LET lp == m.heap[r].last_part IN
    IF lp = None THEN m
    ELSE Then(IF ~m.heap[lp].at_eof THEN PartRelease(m, lp, avail) ELSE m, LAMBDA m1 :
         IF m1.exc # "none" THEN m1
         ELSE [m1 EXCEPT !.heap[r].unread = @ \o m1.heap[lp].unread])

\* MultipartReader._maybe_release_last_part
MRMaybeReleaseLastPart(m, r, avail) ==
    LET lp == m.heap[r].last_part IN
    IF lp = None THEN m
    ELSE Then(IF ~m.heap[lp].at_eof THEN PartRelease(m, lp, avail) ELSE m, LAMBDA m1 :
         IF m1.exc # "none" THEN m1
         ELSE [m1 EXCEPT !.heap[r].unread = @ \o m1.heap[lp].unread,
                         !.heap[r].last_part = None])

\* next() without its first test: a terminal reader goes on reading
MRNextNoEofTest(m, r, avail) ==
    Then(MRMaybeReleaseLastPart(m, r, avail), LAMBDA m1 :
         IF m1.exc # "none" THEN [m1 EXCEPT !.item = None]
         ELSE Then(MRReadBoundary(m1, r, m.heap[r].last_part), LAMBDA m2 :
              IF m2.exc # "none" \/ m2.heap[r].at_eof THEN [m2 EXCEPT !.item = None]
              ELSE MRFetchNextPart([m2 EXCEPT !.item = None], r)))

\* MultipartReader.next
MRNext(m, r, avail) ==
    IF m.heap[r].at_eof THEN [m EXCEPT !.item = None]
    ELSE Then(MRMaybeReleaseLastPart(m, r, avail), LAMBDA m1 :
         IF m1.exc # "none" THEN [m1 EXCEPT !.item = None]
         ELSE Then(MRReadBoundary(m1, r, m.heap[r].last_part), LAMBDA m2 :
              IF m2.exc # "none" \/ m2.heap[r].at_eof THEN [m2 EXCEPT !.item = None]
              ELSE MRFetchNextPart([m2 EXCEPT !.item = None], r)))

\* MultipartReader.release
MRRelease(m, r, avail) ==
    IF m.heap[r].at_eof THEN [m EXCEPT !.item = None]
    ELSE Then(MRNext(m, r, avail), LAMBDA m1 :
         IF m1.exc # "none" \/ m1.item = None THEN [m1 EXCEPT !.item = None]
         ELSE Then(PartRelease(m1, m1.item, avail), LAMBDA m2 :
              IF m2.exc # "none" THEN [m2 EXCEPT !.item = None]
              ELSE MRRelease(m2, r, avail)))

(* ------------------------ BodyPartWriter, MultipartWriter -------------- *)

\* A payload object: raw bytes, a text, an integer (a JSON value, its value
\* the decimal digits) or a nested MultipartWriter (its value the boundary,
\* its parts in sub).
Obj(type, value, sub) == [type |-> type, value |-> value, sub |-> sub]

\* the Content-Length field str(n) makes
LengthField(n) ==
    CASE n = 0 -> CL0
      [] n = 1 -> CL1
      [] n = 2 -> CL2

\* BodyPartWriter._guess_content_length
GuessContentLength(obj) == IF obj.type = "bytes" THEN Len(obj.value) ELSE None

\* BodyPartWriter._guess_content_type
GuessContentType(obj) == IF obj.type = "str" THEN CT_TEXT ELSE CT_OCTET

\* BodyPartWriter._fill_headers_with_defaults (no payload here has a file name)
FillHeadersWithDefaults(obj, headers) ==
    LET h1 == IF HeaderGet(headers, LengthFields) = "" /\ GuessContentLength(obj) # None
              THEN Append(headers, LengthField(GuessContentLength(obj)))
              ELSE headers
    IN IF HeaderGet(h1, TypeFields) = "" THEN Append(h1, GuessContentType(obj)) ELSE h1

\* BodyPartWriter.__init__(obj, headers)
NewBodyPartWriter(obj, headers) ==
    [obj |-> obj, headers |-> FillHeadersWithDefaults(obj, headers)]

\* str.encode('utf-8') of one character
Utf8(ch) == IF ch = "e'" THEN <<"C3", "A9">> ELSE <<ch>>

\* str.encode(charset) with the utf-8 charset of the text/plain default
RECURSIVE Encode(_)
Encode(chars) == IF chars = <<>> THEN <<>> ELSE Utf8(chars[1]) \o Encode(Drop(chars, 1))

\* json.dumps(obj).encode('utf-8'): a text is quoted, an integer is its digits
JsonDumps(obj) ==
    IF obj.type = "str" THEN <<"\"">> \o Encode(obj.value) \o <<"\"">> ELSE obj.value

\* b'\r\n'.join(b': '.join(item) for item in headers.items())
RECURSIVE JoinHeaders(_)
JoinHeaders(headers) ==
    IF headers = <<>> THEN <<>>
    ELSE IF Len(headers) = 1 THEN <<headers[1]>>
    ELSE <<headers[1]>> \o CRLF \o JoinHeaders(Drop(headers, 1))

\* the serializer serialize() picks: by (mtype, stype) first, then by the
\* payload's type; "default" raises TypeError
Serializer(part) ==
    LET ctype == HeaderGet(part.headers, TypeFields) IN
    IF MimeType(ctype) = "application" /\ MimeSubtype(ctype) = "json" THEN "json"
    ELSE IF part.obj.type \in {"bytes", "str", "multipart"} THEN part.obj.type
    ELSE "default"

RECURSIVE SerializePayload(_), SerializePart(_), SerializeParts(_, _), SerializeWriter(_, _)

\* the bytes the serializer of serialize() yields for the payload
SerializePayload(part) ==
    CASE Serializer(part) = "json" -> JsonDumps(part.obj)
      [] Serializer(part) = "bytes" -> part.obj.value
      [] Serializer(part) = "str" -> Encode(part.obj.value)
      [] Serializer(part) = "multipart" -> SerializeWriter(part.obj.value[1], part.obj.sub)
      [] OTHER -> <<>>

\* BodyPartWriter.serialize, the chunks joined
SerializePart(part) ==
    JoinHeaders(part.headers) \o CRLF \o CRLF \o SerializePayload(part) \o CRLF

\* for part in self.parts: yield b'--' + self.boundary + b'\r\n'; yield from part.serialize()
SerializeParts(boundary, ps) ==
    IF ps = <<>> THEN <<>>
    ELSE DASHES \o <<boundary>> \o CRLF \o SerializePart(ps[1])
         \o SerializeParts(boundary, Drop(ps, 1))

\* serialize() without the line after the last part
SerializeWriterOpen(boundary, ps) == SerializeParts(boundary, ps)

\* MultipartWriter.serialize, the chunks joined
SerializeWriter(boundary, ps) ==
    IF ps = <<>> THEN <<>>
    ELSE SerializeParts(boundary, ps) \o DASHES \o <<boundary>> \o DASHES \o CRLF

\* serialize() raises TypeError for a payload no serializer takes
RECURSIVE Serializable(_)
Serializable(ps) ==
    \A i \in 1..Len(ps) :
        /\ Serializer(ps[i]) # "default"
        /\ Serializer(ps[i]) = "multipart" => Serializable(ps[i].obj.sub)

(* -------------------------------- Feed --------------------------------- *)

\* the None that _loop puts when the source ends and that next() returns
FeedNone == <<"None">>

\* bytes.strip()
Strip(chunk) == LStrip(RStrip(chunk, WHITESPACE), WHITESPACE)

\* what content.read() may return: a chunk, a chunk in white space, a chunk
\* of white space only
SourceChunks == {<<"x">>, <<"SP", "y", "CR", "LF">>, <<"LF">>}

\* a put that goes in front of the waiting items
PutFirst(q, item) == <<item>> \o q

\* asyncio.Queue.put_nowait
PutNowait(q, item) == Append(q, item)

\* Feed.is_active
IsActive == ~(eof /\ queue = <<>>)

\* _loop: content.read() returned a chunk; it is stripped and, unless empty,
\* put into the queue
LoopRead ==
    /\ task = "running"
    /\ Len(source) < MaxReads
    /\ \E chunk \in SourceChunks :
          /\ source' = Append(source, chunk)
          /\ queue' = IF Strip(chunk) = <<>> THEN queue ELSE PutNowait(queue, Strip(chunk))
    /\ UNCHANGED <<eof, task, consumer, returned, mpvars, ctorvars>>

\* _loop: content.read() raised aiohttp.EofStream
LoopEof ==
    /\ task = "running"
    /\ queue' = PutNowait(queue, FeedNone)
    /\ eof' = TRUE
    /\ task' = "done"
    /\ UNCHANGED <<source, consumer, returned, mpvars, ctorvars>>

\* _loop: content.read() raised another exception, which _loop does not
\* catch: the task ends with it
LoopError ==
    /\ task = "running"
    /\ task' = "failed"
    /\ UNCHANGED <<source, queue, eof, consumer, returned, mpvars, ctorvars>>

\* Feed.next() is called: it returns None when the feed is not active, the
\* first item of the queue when there is one, and waits in _queue.get()
\* otherwise
FeedNext ==
    /\ consumer = "idle"
    /\ Len(returned) < MaxNexts
    /\ IF ~IsActive
       THEN returned' = Append(returned, FeedNone) /\ UNCHANGED <<queue, consumer>>
       ELSE IF queue # <<>>
       THEN returned' = Append(returned, Head(queue)) /\ queue' = Tail(queue)
            /\ UNCHANGED consumer
       ELSE consumer' = "waiting" /\ UNCHANGED <<queue, returned>>
    /\ UNCHANGED <<source, eof, task, mpvars, ctorvars>>

\* _queue.get() resumes with the item that was put while next() waited
FeedWake ==
    /\ consumer = "waiting"
    /\ queue # <<>>
    /\ returned' = Append(returned, Head(queue))
    /\ queue' = Tail(queue)
    /\ consumer' = "idle"
    /\ UNCHANGED <<source, eof, task, mpvars, ctorvars>>

(* ----------------------------- construction --------------------------- *)

\* the longest boundary _get_boundary takes
BOUNDARY_MAX == 70

\* boundary.encode('us-ascii') succeeds
IsAscii(boundary) == \A i \in 1..Len(boundary) : boundary[i] # "e'"

\* MultipartWriter.__init__(boundary=boundary): ValueError for a boundary
\* that is not ASCII, and no other test
WriterInit(boundary) == IF IsAscii(boundary) THEN "ok" ELSE "ValueError"

\* MultipartReader._get_boundary: len(boundary) > 70
TooLong(boundary) == Len(boundary) > BOUNDARY_MAX

\* MultipartReader.__init__(headers, content) with the boundary parameter of
\* headers[CONTENT_TYPE]
ReaderInit(boundary) == IF TooLong(boundary) THEN "ValueError" ELSE "ok"

\* a boundary of n characters, the last one ASCII or not
BoundaryOf(n, last) == [i \in 1..n |-> IF i = n THEN last ELSE "a"]

\* MultipartWriter(boundary=...)
NewWriter ==
    /\ writer = "none"
    /\ \E n \in 1..MaxBoundary : \E last \in {"a", "e'"} :
          /\ wboundary' = BoundaryOf(n, last)
          /\ writer' = WriterInit(BoundaryOf(n, last))
    /\ UNCHANGED <<reader, mpvars, feedvars>>

\* MultipartReader(writer.headers, content): the boundary parameter that
\* parse_mimetype finds in the writer's Content-Type is the writer's boundary
NewReader ==
    /\ writer = "ok"
    /\ reader = "none"
    /\ reader' = ReaderInit(wboundary)
    /\ UNCHANGED <<wboundary, writer, mpvars, feedvars>>

(* ------------------------------- inputs -------------------------------- *)

\* the boundary parameter of the writer and of the reader over the stream
BOUNDARY == "b"

\* MultipartWriter.headers, which the reader is built from
WriterHeaders == <<CT_MULTI_B>>

\* the nested writer a part may hold: boundary c, one raw part
NestedWriter == Obj("multipart", <<"c">>, <<NewBodyPartWriter(Obj("bytes", <<"x">>, <<>>), <<>>)>>)

\* append(obj, headers): raw bytes of length 0, 1 and 2, a text, a text that
\* starts like the boundary, a non-ASCII text, a nested writer with its headers
AppendInputs ==
    {[obj |-> Obj("bytes", v, <<>>), headers |-> <<>>] : v \in {<<>>, <<"x">>, <<"x", "x">>}}
    \cup {[obj |-> Obj("str", v, <<>>), headers |-> <<>>] :
            v \in {<<"x">>, <<"-", "-", "b", "x">>, <<"e'">>}}
    \cup {[obj |-> NestedWriter, headers |-> <<CT_MULTI_C>>]}

\* append_json(obj)
JsonInputs == {Obj("int", <<"1">>, <<>>)}

\* Bodies no MultipartWriter produced: a boundary line with trailing blanks
\* and a payload line that is the boundary followed by CR CR LF; a preamble
\* line; a declared length shorter than the payload; a header line without a
\* field; a multipart part without boundary parameter.
ForeignBodies ==
    { <<"-", "-", "b", "SP", "CR", "LF", "CR", "LF", "x", "CR", "LF",
        "-", "-", "b", "CR", "CR", "LF", "CR", "LF", "-", "-", "b", "-", "-", "CR", "LF">>,
      <<"x", "CR", "LF", "-", "-", "b", "-", "-", "CR", "LF">>,
      <<"-", "-", "b", "CR", "LF", CL1, "CR", "LF", "CR", "LF", "x", "x", "CR", "LF",
        "-", "-", "b", "-", "-", "CR", "LF">>,
      <<"-", "-", "b", "CR", "LF", "x", "CR", "LF", "CR", "LF",
        "-", "-", "b", "-", "-", "CR", "LF">>,
      <<"-", "-", "b", "CR", "LF", CT_MULTI_NOB, "CR", "LF", "CR", "LF",
        "-", "-", "b", "-", "-", "CR", "LF">> }

(* ------------------------------- actions ------------------------------- *)

NoCall ==
    [op |-> "none", target |-> 0, size |-> 0, exc |-> "none", data |-> <<>>,
     item |-> None, log |-> <<>>, pos0 |-> 0, eof0 |-> FALSE]

\* what the last call did, from the machine it ended in; pos0 and eof0 are the
\* stream position and the target's at_eof when the call was made
CallOf(op, target, size, m) ==
    [op |-> op, target |-> target, size |-> size, exc |-> m.exc, data |-> m.data,
     item |-> m.item, log |-> m.log, pos0 |-> pos, eof0 |-> heap[target].at_eof]

Init ==
    /\ parts = <<>>
    /\ phase = "write"
    /\ content = <<>>
    /\ wire = "none"
    /\ pos = 0
    /\ heap = <<>>
    /\ call = NoCall
    /\ resp = 0
    /\ source = <<>>
    /\ queue = <<>>
    /\ eof = FALSE
    /\ task = "running"
    /\ consumer = "idle"
    /\ returned = <<>>
    /\ wboundary = <<>>
    /\ writer = "none"
    /\ reader = "none"

\* MultipartWriter.append(obj, headers)
WriterAppend ==
    /\ phase = "write"
    /\ Len(parts) < MaxParts
    /\ \E in \in AppendInputs : parts' = Append(parts, NewBodyPartWriter(in.obj, in.headers))
    /\ UNCHANGED <<phase, content, wire, pos, heap, call, resp, feedvars, ctorvars>>

\* MultipartWriter.append_json(obj)
WriterAppendJson ==
    /\ phase = "write"
    /\ Len(parts) < MaxParts
    /\ \E obj \in JsonInputs : parts' = Append(parts, NewBodyPartWriter(obj, <<CT_JSON>>))
    /\ UNCHANGED <<phase, content, wire, pos, heap, call, resp, feedvars, ctorvars>>

\* The body goes out: serialize() is joined and sent as the content of a
\* response, and the peer builds MultipartReader.from_response(response):
\* MultipartReader(response.headers, response.content) inside a
\* MultipartResponseWrapper.
Send ==
    /\ phase = "write"
    /\ Serializable(parts)
    /\ content' = SerializeWriter(BOUNDARY, parts)
    /\ wire' = "writer"
    /\ phase' = "read"
    /\ pos' = 0
    /\ heap' = <<NewMultipartReader(0, GetBoundary(WriterHeaders), WriterHeaders)>>
    /\ call' = NoCall
    /\ UNCHANGED <<parts, resp, feedvars, ctorvars>>

\* The same, but the connection is lost on the way: the stream ends after the
\* first cut bytes of the body.
SendCut ==
    /\ phase = "write"
    /\ Serializable(parts)
    /\ Len(parts) <= MaxCutParts
    /\ LET body == SerializeWriter(BOUNDARY, parts) IN
       \E cut \in 0..(Len(body) - 1) : content' = Take(body, cut)
    /\ wire' = "cut"
    /\ phase' = "read"
    /\ pos' = 0
    /\ heap' = <<NewMultipartReader(0, GetBoundary(WriterHeaders), WriterHeaders)>>
    /\ call' = NoCall
    /\ UNCHANGED <<parts, resp, feedvars, ctorvars>>

\* A body of another producer arrives for the same Content-Type.
Receive ==
    /\ phase = "write"
    /\ parts = <<>>
    /\ \E body \in ForeignBodies : content' = body
    /\ wire' = "raw"
    /\ phase' = "read"
    /\ pos' = 0
    /\ heap' = <<NewMultipartReader(0, GetBoundary(WriterHeaders), WriterHeaders)>>
    /\ call' = NoCall
    /\ UNCHANGED <<parts, resp, feedvars, ctorvars>>

\* a call can be made: the body is there and the last call returned or raised
Callable == phase = "read" /\ call.exc # "hang"

Readers == {r \in 1..Len(heap) : heap[r].kind = "multipart"}
BodyParts == {p \in 1..Len(heap) : heap[p].kind = "body"}

\* the state a call leaves
Returns(op, target, size, m) ==
    /\ heap' = m.heap
    /\ pos' = m.pos
    /\ call' = CallOf(op, target, size, m)
    /\ UNCHANGED <<parts, phase, content, wire, resp, feedvars, ctorvars>>

\* reader.next()
CallNext ==
    /\ Callable
    /\ \E r \in Readers : \E avail \in 1..MaxChunk :
       \E m \in {MRNext(Machine(heap, pos), r, avail)} :
          Returns("next", r, 0, [m EXCEPT !.data = <<>>])

\* reader.release()
CallReaderRelease ==
    /\ Callable
    /\ \E r \in Readers : \E avail \in 1..MaxChunk :
       \E m \in {MRRelease(Machine(heap, pos), r, avail)} :
          Returns("release", r, 0, [m EXCEPT !.data = <<>>])

\* part.read()
CallRead ==
    /\ Callable
    /\ \E p \in BodyParts : \E avail \in 1..MaxChunk :
       \E m \in {BPRead(Machine(heap, pos), p, avail)} : Returns("read", p, 0, m)

\* part.readline()
CallReadline ==
    /\ Callable
    /\ \E p \in BodyParts :
       \E m \in {BPReadline(Machine(heap, pos), p)} : Returns("readline", p, 0, m)

\* part.read_chunk(size)
CallReadChunk ==
    /\ Callable
    /\ \E p \in BodyParts : \E size \in 1..MaxChunk : \E avail \in 1..MaxChunk :
       \E m \in {BPReadChunk(Machine(heap, pos), p, size, avail)} :
          Returns("read_chunk", p, size, m)

\* part.release()
CallPartRelease ==
    /\ Callable
    /\ \E p \in BodyParts : \E avail \in 1..MaxChunk :
       \E m \in {BPRelease(Machine(heap, pos), p, avail)} : Returns("release", p, 0, m)

\* the test of MultipartResponseWrapper.next that releases after any next()
ReleaseAfterNextAlways(m) == m.exc = "none"

\* MultipartResponseWrapper.next: if self.stream.at_eof(), reached when
\* self.stream.next() has returned
ReleaseAfterNext(m) == m.exc = "none" /\ m.heap[1].at_eof

\* resp.release(): the rest of the content is read to the void
RespRelease ==
    /\ resp' = resp + 1
    /\ pos' = Len(content)

\* wrapper.next(), the wrapper over the reader of the whole stream
WrapperNext ==
    /\ Callable
    /\ resp < MaxReleases
    /\ \E avail \in 1..MaxChunk :
       \E m \in {MRNext(Machine(heap, pos), 1, avail)} :
          /\ heap' = m.heap
          /\ call' = CallOf("wrapper.next", 1, 0, [m EXCEPT !.data = <<>>])
          /\ IF ReleaseAfterNext(m) THEN RespRelease
             ELSE pos' = m.pos /\ resp' = resp
    /\ UNCHANGED <<parts, phase, content, wire, feedvars, ctorvars>>

\* wrapper.release()
WrapperRelease ==
    /\ Callable
    /\ resp < MaxReleases
    /\ RespRelease
    /\ call' = CallOf("wrapper.release", 1, 0, Machine(heap, pos))
    /\ UNCHANGED <<parts, phase, content, wire, heap, feedvars, ctorvars>>

Next ==
    \/ WriterAppend
    \/ WriterAppendJson
    \/ Send
    \/ SendCut
    \/ Receive
    \/ CallNext
    \/ CallReaderRelease
    \/ CallRead
    \/ CallReadline
    \/ CallReadChunk
    \/ CallPartRelease
    \/ WrapperNext
    \/ WrapperRelease

Spec == Init /\ [][Next]_vars

\* the feed: the task of _loop and the one consumer, interleaved
FeedStep ==
    \/ LoopRead
    \/ LoopEof
    \/ LoopError
    \/ FeedNext
    \/ FeedWake

FeedSpec == Init /\ [][FeedStep]_vars

\* the construction of a writer, and of a reader from its headers
CtorStep ==
    \/ NewWriter
    \/ NewReader

CtorSpec == Init /\ [][CtorStep]_vars

\* The event loop runs every task that can run: the source delivers, ends or
\* fails, and a consumer whose item is there resumes.
FeedFair ==
    /\ FeedSpec
    /\ WF_vars(LoopRead \/ LoopEof \/ LoopError)
    /\ WF_vars(FeedWake)

(* ------------------------------- claims -------------------------------- *)

\* the last call was op on target
Called(op, target) == call.op = op /\ call.target = target

\* the bytes the last call took from the stream
Consumed == SubSeq(content, call.pos0 + 1, pos)

\* C1: once a MultipartReader has read its final boundary it is terminal for
\* good: at_eof stays true over every later call, and a next() made on it then
\* returns no part, raises nothing, and takes no byte from the stream nor
\* changes any reader.
C1_TerminalForGood ==
    [][\A r \in Readers :
          heap[r].at_eof =>
             /\ heap'[r].at_eof
             /\ (call'.op = "next" /\ call'.target = r) =>
                   /\ call'.item = None
                   /\ call'.exc = "none"
                   /\ pos' = pos
                   /\ heap' = heap]_vars

\* C1 witness: next() was called on the reader over a complete two-part body
\* after it had already read the final boundary (the call examined no line).
C1_Witness ==
    /\ wire = "writer"
    /\ Len(parts) = 2
    /\ Called("next", 1)
    /\ call.eof0
    /\ heap[1].at_eof
    /\ call.item = None

\* the line a reader examined as the boundary in the last call, as the log
\* entry of its _read_boundary
Examined(r) == {i \in 1..Len(call.log) : call.log[i].reader = r}

\* C4: whenever a MultipartReader examines a boundary line, the part it handed
\* out before (if any) is at_eof, and if that part pushed a line back, the
\* examined line is that very line, taken from the pushback buffer and not
\* from the stream.
C4_ReleasedBeforeBoundary ==
    \A i \in 1..Len(call.log) :
       LET e == call.log[i] IN
       e.prev # None =>
          /\ heap[e.prev].at_eof
          /\ heap[e.prev].unread # <<>> =>
                /\ e.src = "unread"
                /\ e.line = heap[e.prev].unread[Len(heap[e.prev].unread)]

\* the stream position right after the header block of the first part of the
\* writer's body
FirstPayloadStart ==
    Len(DASHES \o <<BOUNDARY>> \o CRLF \o JoinHeaders(parts[1].headers) \o CRLF \o CRLF)

\* C4 witness: on a complete two-part body the caller never touched the first
\* part, which has no declared length; the second next() released it, took the
\* boundary line it pushed back, and returned the second part.
C4_Witness ==
    /\ wire = "writer"
    /\ Len(parts) = 2
    /\ Called("next", 1)
    /\ call.pos0 = FirstPayloadStart
    /\ heap[2].length = None
    /\ call.exc = "none"
    /\ call.item = 3
    /\ \E i \in 1..Len(call.log) : call.log[i].prev = 2 /\ call.log[i].src = "unread"

\* C9: in next(), the line examined as the boundary decides the call: the
\* boundary (trailing white space aside) and the reader is not terminal and a
\* part follows unless its header block is rejected; the final boundary and
\* the reader is terminal and nothing is returned; any other line, the empty
\* line and the end of the stream included, and ValueError is raised, no part
\* is returned and the reader is not terminal.
C9_BoundaryOrFramingError ==
    \A r \in Readers :
       (Called("next", r) /\ Examined(r) # {}) =>
          LET e == call.log[Len(call.log)]
              chunk == RStrip(e.line, WHITESPACE)
          IN /\ e.reader = r
             /\ chunk = heap[r].boundary =>
                   /\ ~heap[r].at_eof
                   /\ call.exc \in {"none", "InvalidHeader", "ValueError"}
                   /\ call.exc = "none" <=> call.item # None
             /\ chunk = heap[r].boundary \o DASHES =>
                   /\ heap[r].at_eof
                   /\ call.exc = "none"
                   /\ call.item = None
             /\ chunk \notin {heap[r].boundary, heap[r].boundary \o DASHES} =>
                   /\ call.exc = "ValueError"
                   /\ call.item = None
                   /\ ~heap[r].at_eof

\* C9 witness: next() found an empty line where the boundary had to be and
\* raised ValueError.
C9_Witness ==
    /\ call.op = "next"
    /\ call.exc = "ValueError"
    /\ call.log # <<>>
    /\ call.log[Len(call.log)].line = CRLF
    /\ call.log[Len(call.log)].reader = call.target

\* C10: every part a MultipartReader has handed out is a nested
\* MultipartReader exactly if its own Content-Type is multipart/*, and is
\* otherwise a BodyPartReader with the boundary of the reader that made it.
C10_NestedIffMultipart ==
    \A p \in 2..Len(heap) :
       /\ heap[p].kind = "multipart"
             <=> MimeType(HeaderGet(heap[p].headers, TypeFields)) = "multipart"
       /\ heap[p].kind = "body" => heap[p].boundary = heap[heap[p].owner].boundary
       /\ heap[p].kind = "multipart"
             => heap[p].boundary = DASHES \o <<BoundaryParam(HeaderGet(heap[p].headers, TypeFields))>>

\* C10 witness: next() has just returned a nested MultipartReader, and the
\* nested reader has handed out a BodyPartReader of its own.
C10_Witness ==
    \E p \in 2..Len(heap) : \E q \in 2..Len(heap) :
       /\ heap[p].kind = "multipart"
       /\ heap[q].kind = "body"
       /\ heap[q].owner = p
       /\ call.item = q

\* the boundary and the final boundary of a part, as readline compares them
Boundaries(p) == {heap[p].boundary, heap[p].boundary \o DASHES}

\* C6: a BodyPartReader without declared length is at_eof only with one line
\* in its pushback buffer, a stream line that without its trailing CR and LF
\* bytes is the boundary or the final boundary; what read() and readline()
\* return is the bytes they took from the stream less that line; and a line
\* that starts with the boundary without being it is returned by readline()
\* and leaves the part not at_eof.
C6_OnlyBoundaryEndsPart ==
    \A p \in BodyParts :
       heap[p].length = None =>
          /\ heap[p].at_eof =>
                /\ Len(heap[p].unread) = 1
                /\ RStrip(heap[p].unread[1], {"CR", "LF"}) \in Boundaries(p)
          /\ ~heap[p].at_eof => heap[p].unread = <<>>
          /\ (call.target = p /\ call.op \in {"read", "readline"}
                /\ call.exc = "none" /\ ~call.eof0) =>
                Consumed = call.data \o (IF heap[p].at_eof THEN heap[p].unread[1] ELSE <<>>)
          /\ (Called("readline", p) /\ ~call.eof0
                /\ StartsWith(Consumed, heap[p].boundary)
                /\ RStrip(Consumed, {"CR", "LF"}) \notin Boundaries(p)) =>
                /\ call.data = Consumed
                /\ ~heap[p].at_eof

\* C6 witness: readline() returned a line that starts with the boundary and
\* goes on, and the part is not at_eof.
C6_Witness ==
    \E p \in BodyParts :
       /\ heap[p].length = None
       /\ Called("readline", p)
       /\ call.data = heap[p].boundary \o <<"x">> \o CRLF
       /\ ~heap[p].at_eof

\* C5 as claimed: a BodyPartReader with a declared length is at_eof exactly
\* when read_bytes equals the declared length, in every reachable state.
C5_EofIffAllRead ==
    \A p \in BodyParts :
       heap[p].length # None => (heap[p].at_eof <=> heap[p].read_bytes = heap[p].length)

\* C5 amended: for a BodyPartReader with a declared length, read_bytes never
\* exceeds the length; read_bytes equal to a positive declared length means
\* at_eof; at_eof means read_bytes equals the declared length unless
\* readline() ended the part on a boundary line (its pushback buffer is then
\* not empty); a part just handed out is not at_eof, of declared length 0 too;
\* and after a read() that found the part not at_eof, read_bytes is the
\* declared length and the part is at_eof.
C5_EofAndReadBytes ==
    \A p \in BodyParts :
       heap[p].length # None =>
          /\ heap[p].read_bytes <= heap[p].length
          /\ (heap[p].read_bytes = heap[p].length /\ heap[p].length > 0) => heap[p].at_eof
          /\ heap[p].at_eof =>
                heap[p].read_bytes = heap[p].length \/ heap[p].unread # <<>>
          /\ (call.op = "next" /\ call.item = p) =>
                ~heap[p].at_eof /\ heap[p].read_bytes = 0
          /\ (Called("read", p) /\ ~call.eof0) =>
                heap[p].at_eof /\ heap[p].read_bytes = heap[p].length

\* C5 witness: read() ran on a part of declared length 0 that was not at_eof
\* and left it at_eof.
C5_Witness ==
    \E p \in BodyParts :
       /\ heap[p].length = 0
       /\ Called("read", p)
       /\ ~call.eof0
       /\ call.exc = "none"
       /\ heap[p].at_eof

\* C7 as claimed: whenever a readline() that read from the stream returns
\* empty, the part is at_eof and holds the boundary line it stopped at in its
\* pushback buffer.
C7_EmptyReadlineHoldsBoundary ==
    \A p \in BodyParts :
       (Called("readline", p) /\ ~call.eof0 /\ call.exc = "none" /\ call.data = <<>>) =>
          /\ heap[p].at_eof
          /\ heap[p].unread # <<>>
          /\ RStrip(heap[p].unread[Len(heap[p].unread)], {"CR", "LF"}) \in Boundaries(p)

\* C8 as claimed: whenever read(), release() or read_chunk() makes a part with
\* a declared length at_eof, the call has read the line after the payload:
\* it was CR LF, the last bytes the call took from the stream, or the call
\* raised AssertionError.
C8_TerminatorCheckedAtEof ==
    \A p \in BodyParts :
       (/\ heap[p].length # None
        /\ call.target = p
        /\ call.op \in {"read", "release", "read_chunk"}
        /\ ~call.eof0
        /\ heap[p].at_eof) =>
          \/ call.exc = "AssertionError"
          \/ /\ call.exc = "none"
             /\ Len(Consumed) >= 2
             /\ SubSeq(Consumed, Len(Consumed) - 1, Len(Consumed)) = CRLF

\* a body the writer sent whole, of at least one part, none a nested writer,
\* in a response that was not released
FlatBody ==
    /\ wire = "writer"
    /\ resp = 0
    /\ Len(parts) >= 1
    /\ \A i \in 1..Len(parts) : parts[i].obj.type # "multipart"

\* C2 as claimed: over a well-formed body of N parts, whatever the caller did
\* with the parts, every next() returns: the k-th the k-th part written, the
\* one after the N-th nothing, leaving the reader terminal.
C2_AllPartsInOrder ==
    (FlatBody /\ Called("next", 1)) =>
       /\ call.exc = "none"
       /\ Len(heap) - 1 <= Len(parts)
       /\ \A p \in 2..Len(heap) : heap[p].headers = parts[p - 1].headers
       /\ call.item # None => call.item = Len(heap) /\ ~heap[1].at_eof
       /\ call.item = None => Len(heap) - 1 = Len(parts) /\ heap[1].at_eof

\* the stream position where the payload of the k-th part of the body starts
PayloadStart(k) ==
    Len(SerializeParts(BOUNDARY, SubSeq(parts, 1, k - 1))
        \o DASHES \o <<BOUNDARY>> \o CRLF \o JoinHeaders(parts[k].headers) \o CRLF \o CRLF)

\* C3 as claimed: a read() of a part of the writer's body, made before any
\* byte of the part was taken, returns the payload bytes written for it, and
\* the part has the headers written for it.
C3_RoundTrip ==
    \A p \in 2..Len(heap) :
       (FlatBody /\ Called("read", p) /\ call.exc = "none"
          /\ call.pos0 = PayloadStart(p - 1)) =>
          /\ heap[p].headers = parts[p - 1].headers
          /\ call.data = SerializePayload(parts[p - 1])

\* C11 as claimed: release() of the reader over a body of at least one part
\* that the writer sent whole (it ends with the final boundary line), called
\* while the reader is not terminal and the response not released, returns
\* with the reader terminal,
\* every part it handed out at_eof, and the stream consumed up to the end of
\* the final boundary line, which is the end of the body.
C11_ReleaseReachesFinalBoundary ==
    (wire = "writer" /\ resp = 0 /\ Len(parts) >= 1 /\ Called("release", 1) /\ ~call.eof0) =>
       /\ call.exc = "none"
       /\ heap[1].at_eof
       /\ \A p \in 2..Len(heap) : heap[p].owner = 1 => heap[p].at_eof
       /\ pos = Len(content)

\* C12: a wrapper.next() that returns with the wrapped reader terminal has
\* released the response, and a wrapper.next() that returns with the reader
\* not terminal, or that raises, has not.
C12_ReleasedIffTerminal ==
    [][call'.op = "wrapper.next" =>
          /\ (call'.exc = "none" /\ heap'[1].at_eof) => resp' = resp + 1 /\ resp' >= 1
          /\ ~(call'.exc = "none" /\ heap'[1].at_eof) => resp' = resp]_vars

\* C12 witness: on a complete two-part body the wrapper.next() that read the
\* final boundary has released the response, which no call had done before.
C12_Witness ==
    /\ wire = "writer"
    /\ Len(parts) = 2
    /\ Called("wrapper.next", 1)
    /\ ~call.eof0
    /\ call.exc = "none"
    /\ call.item = None
    /\ heap[1].at_eof
    /\ resp = 1

\* the non-empty trimmed chunks of what the source delivered, in source order
RECURSIVE TrimmedChunks(_)
TrimmedChunks(chunks) ==
    IF chunks = <<>> THEN <<>>
    ELSE (IF Strip(chunks[1]) = <<>> THEN <<>> ELSE <<Strip(chunks[1])>>)
         \o TrimmedChunks(Tail(chunks))

\* the values next() returned before it first returned None
BeforeSentinel ==
    LET nones == {i \in 1..Len(returned) : returned[i] = FeedNone}
    IN IF nones = {} THEN returned
       ELSE SubSeq(returned, 1, (CHOOSE i \in nones : \A j \in nones : i <= j) - 1)

\* the data chunks waiting in the queue
QueuedChunks == SelectSeq(queue, LAMBDA item : item # FeedNone)

\* C13: in every state of every interleaving of _loop and the consumer, the
\* values next() returned before its first None, followed by the chunks still
\* in the queue, are the non-empty trimmed chunks read from the source, each
\* once and in source order; once None was returned, the end of the source
\* was seen and no chunk is left in the queue, and every value returned after
\* the first None is None.
C13_ChunksOnceInOrder ==
    /\ BeforeSentinel \o QueuedChunks = TrimmedChunks(source)
    /\ Len(BeforeSentinel) < Len(returned) =>
          /\ eof
          /\ QueuedChunks = <<>>
          /\ \A i \in (Len(BeforeSentinel) + 1)..Len(returned) : returned[i] = FeedNone

\* C13 witness: the source delivered a chunk, white space only, and a chunk
\* in white space, then ended; next() returned the two trimmed chunks and
\* then None twice.
C13_Witness ==
    /\ source = <<<<"x">>, <<"LF">>, <<"SP", "y", "CR", "LF">>>>
    /\ returned = <<<<"x">>, <<"y">>, FeedNone, FeedNone>>
    /\ eof

\* C14 as claimed: in every state is_active() is false exactly when the end
\* of the source was seen and no data chunk is left to deliver.
C14_ActiveIffDataMayArrive ==
    IsActive <=> ~(eof /\ QueuedChunks = <<>>)

\* C17 as claimed: a next() that waits in _queue.get() returns in the end,
\* however the source stops delivering.
C17_NextReturns ==
    consumer = "waiting" ~> consumer = "idle"

\* a header block: every field on a line of its own
RECURSIVE HeaderLines(_)
HeaderLines(headers) ==
    IF headers = <<>> THEN <<>>
    ELSE <<headers[1]>> \o CRLF \o HeaderLines(Tail(headers))

\* the wire format of the first k parts: for each the continuation boundary
\* line, the header block, the blank line, the payload, a line terminator
RECURSIVE Frames(_)
Frames(k) ==
    IF k = 0 THEN <<>>
    ELSE Frames(k - 1)
         \o <<"-", "-", BOUNDARY, "CR", "LF">>
         \o HeaderLines(parts[k].headers) \o <<"CR", "LF">>
         \o SerializePayload(parts[k]) \o <<"CR", "LF">>

\* C15: what serialize() emits is, for the parts in the order appended, the
\* line --boundary and the part's header block, blank line, payload and line
\* terminator, then the one line --boundary-- after the last part; a writer
\* without parts emits no byte at all.
C15_SerializeFormat ==
    wire = "writer" =>
       content = IF parts = <<>> THEN <<>>
                 ELSE Frames(Len(parts)) \o <<"-", "-", BOUNDARY, "-", "-", "CR", "LF">>

\* C15 witness: a writer of two parts, raw bytes and a text, was serialized.
C15_Witness ==
    /\ wire = "writer"
    /\ pos = 0
    /\ Len(parts) = 2
    /\ parts[1].obj.type = "bytes"
    /\ parts[2].obj.type = "str"
    /\ Len(content) > 0

\* C16 as claimed: the boundary of every writer and of every reader that was
\* constructed is at most 70 characters long, and the reader constructed from
\* the headers of a writer accepts the writer's boundary.
C16_BoundaryAtMost70 ==
    /\ writer = "ok" => Len(wboundary) <= 70
    /\ reader = "ok" => Len(wboundary) <= 70
    /\ (writer = "ok" /\ reader # "none") => reader = "ok"

\* C18 as claimed: over a body of flat parts that the writer sent whole,
\* whatever calls were made on the parts handed out so far, next() raises
\* nothing and returns a part or leaves the reader terminal.
C18_NextAfterAnyConsumption ==
    (FlatBody /\ Called("next", 1)) =>
       /\ call.exc = "none"
       /\ call.item # None \/ heap[1].at_eof

\* C19 as claimed: every call of read(), release() and next(), on a part or on
\* a reader, returns or raises, whatever the stream holds and wherever it ends.
C19_CallsTerminate ==
    call.exc # "hang"

\* C20 as claimed: every read_chunk() on a part with a declared length adds
\* to read_bytes the number of bytes it returns, so at_eof is set only when
\* as many bytes as declared have been returned; stated for the bodies the
\* writer sent whole, in a response that was not released.
C20_ReadBytesCountsReturned ==
    [][\A p \in BodyParts :
          (/\ wire = "writer"
           /\ resp = 0
           /\ call'.op = "read_chunk"
           /\ call'.target = p
           /\ call'.exc = "none"
           /\ heap[p].length # None) =>
             heap'[p].read_bytes = heap[p].read_bytes + Len(call'.data)]_vars

\* C21 as claimed: over a body the writer sent whole, in a response that was
\* not released, a first part that is a nested writer is handed out as a
\* nested MultipartReader; and a next() of the outer reader that finds the
\* nested reader it handed out before drained to its final boundary, and so
\* goes on to the line that follows, raises nothing and returns the following
\* outer part or leaves the outer reader terminal.
C21_NestedWriterRoundTrip ==
    (wire = "writer" /\ resp = 0 /\ Called("next", 1)) =>
       /\ (Len(heap) = 2 /\ call.item = 2 /\ parts[1].obj.type = "multipart") =>
             heap[2].kind = "multipart"
       /\ \A i \in Examined(1) :
             (call.log[i].prev # None /\ heap[call.log[i].prev].kind = "multipart") =>
                /\ call.exc = "none"
                /\ call.item # None \/ heap[1].at_eof

\* C22 as claimed: over a body the writer sent, a wrapper.next() made when
\* the wrapped reader is terminal and the response was released returns no
\* part and does not release the response again.
C22_ReleasedAtMostOnce ==
    [][(wire = "writer" /\ call'.op = "wrapper.next" /\ heap[1].at_eof /\ resp >= 1) =>
          /\ call'.item = None
          /\ resp' = resp]_vars

\* C23: after every call the pushback buffer of every part and of every
\* reader, nested ones included, holds at most one line; a line a reader took
\* from its buffer in the call came from the part that was its last part when
\* the call was made, or from a part handed out during the call, and that
\* part is no longer its last part afterwards; and the last part of a reader
\* only ever changes to none or to a part that did not exist before, so no
\* part gives its buffer to its reader twice.
C23_UnreadAtMostOneLine ==
    [][/\ \A o \in 1..Len(heap') : Len(heap'[o].unread) <= 1
       /\ \A i \in 1..Len(call'.log) :
             LET e == call'.log[i] IN
             e.src = "unread" =>
                /\ e.prev # None
                /\ heap'[e.prev].owner = e.reader
                /\ e.prev > Len(heap) \/ heap[e.reader].last_part = e.prev
                /\ heap'[e.reader].last_part # e.prev
       /\ \A r \in 1..Len(heap) :
             \/ heap'[r].last_part \in {heap[r].last_part, None}
             \/ heap'[r].last_part > Len(heap)]_vars

\* C23 witness: on a complete body of one text part, read() took the part to
\* the final boundary line, which it holds in its buffer, and next() then
\* took that line from the buffer and left the reader terminal with an empty
\* buffer.
C23_Witness ==
    /\ wire = "writer"
    /\ Len(parts) = 1
    /\ Called("next", 1)
    /\ call.item = None
    /\ heap[1].at_eof
    /\ heap[1].unread = <<>>
    /\ heap[2].unread = <<<<"-", "-", "b", "-", "-", "CR", "LF">>>>
    /\ Len(call.log) = 1
    /\ call.log[1].src = "unread"
    /\ call.log[1].prev = 2
    /\ call.pos0 = Len(content)

====
